---- MODULE Spec2Model ----
(***************************************************************************)
(* Model of the chat-driven generation workflow of the ChatInterface       *)
(* component (src/unnamed/part_001): handleSubmit, handleAIResponse,       *)
(* handleFileGeneration, handleCancel, the cancel tokens and the message   *)
(* log.                                                                    *)
(*                                                                         *)
(* React state is modelled by one variable per useState slot.  An async    *)
(* function is modelled by a record per call ("attempt") whose pc names    *)
(* the await it is suspended at; one action resumes it and runs the        *)
(* synchronous code up to the next await (JavaScript runs to completion    *)
(* between awaits, so no user event can fall inside such a run).           *)
(*                                                                         *)
(* Two further specifications share the module: SpecTyping applies         *)
(* simulateTyping to files of every length up to MaxLines, and SpecServer  *)
(* models the request handlers of the server (src/unnamed/part_000):       *)
(* POST /api/ask and POST /api/files/create over global.projectFiles and   *)
(* the ai-generated directory.                                             *)
(***************************************************************************)
EXTENDS Integers, Sequences, FiniteSets, TLC

(* ------------------------------ bounds --------------------------------- *)
\* number of handleAIResponse calls explored in one session
MaxAttempts == 2
\* largest number of fenced blocks the regex finds in a server response
MaxBlocks == 2
\* largest number of code blocks of a response that are given a file name
MaxNamed == 3
\* largest number of lines of a file typed by a file loop
MaxTypedLines == 4
\* number of clock ticks (Date.now() readings beyond the first) explored
MaxTicks == 1
\* largest number of lines of a file handed to simulateTyping
MaxLines == 400
\* number of HTTP requests the server handles in one run
MaxRequests == 2

(* --------------------------- JavaScript values ------------------------- *)
Undefined == [t |-> "undefined"]
Num(n) == [t |-> "number", v |-> n]
Str(s) == [t |-> "string", v |-> s]
\* the outcome of calling a method a value does not have
TypeError == [t |-> "TypeError"]

(* ------------------------- constants of the code ----------------------- *)
\* id of the greeting message the log starts with (id: '1')
InitialMessageId == 1

\* the keys of GENERATION_STAGES, in array order
GENERATION_STAGES ==
  <<"analysis", "architecture", "structure", "implementation", "optimization">>

\* the keys handleFileGeneration passes to setCurrentStage before the
\* network call, in program order (lines 765, 772, 776)
StageScript_swapped == <<"analysis", "structure", "architecture">>
StageScript == <<"analysis", "architecture", "structure">>

\* cancelToken state when no token is held (useState<CancelToken | null>(null))
NullToken == 0

(* ------------------------------ prompts -------------------------------- *)
\* Sample prompt texts; "" is the empty input.
Prompts == {"", "hello", "agent help", "build a todo app"}

\* The keywords of the code (lower case) that occur as substrings of each
\* sample prompt after toLowerCase().
SubstringsOf(p) ==
  CASE p = "build a todo app" -> {"build", "todo", "app"}
    [] p = "build me a todo app" -> {"build", "todo", "app"}
    [] p = "agent help" -> {"agent"}
    [] p = "Calculator please" -> {"calculator"}
    [] p = "my TODO list" -> {"todo"}
    [] p = "a calculator and a todo list" -> {"calculator", "todo"}
    [] OTHER -> {}

codeKeywords ==
  {"create", "build", "make", "generate", "develop", "write", "code", "app",
   "application", "website", "web", "function", "component", "class",
   "module", "script", "program", "todo", "calculator", "game", "dashboard",
   "form", "login", "signup", "api", "database", "add", "implement",
   "design", "setup", "configure"}

isCodeGenerationRequest_firstOnly(input) == "create" \in SubstringsOf(input)
isCodeGenerationRequest(input) == SubstringsOf(input) \cap codeKeywords # {}

isAgentMode(input) ==
  SubstringsOf(input) \cap {"agent", "build", "create", "make"} # {}

(* --------------------------- response texts ---------------------------- *)
\* A response text is a sequence over the alphabet the regular expression
\*   /```[\w+]?\n([\s\S]*?)```/g
\* distinguishes: "F" three backticks, "w" one character of [\w+],
\* "N" a newline, "x" a run of other text.
Block == <<"F", "N", "x", "N", "F", "N">>

RECURSIVE Blocks(_)
Blocks(n) == IF n = 0 THEN <<>> ELSE Block \o Blocks(n - 1)

\* a server response whose text holds n fences with an empty language tag
ServerResponse(n) == <<"x", "N">> \o Blocks(n)

\* the two canned responses of generateLocalCode: prose, one ```html fence
\* holding the page, prose
LocalTemplate(i) ==
  <<"x", "N", "N", "F", "w", "w", "w", "w", "N", "x", "N", "F", "N", "N", "x">>

RECURSIVE FindFence(_, _)
FindFence(s, from) ==
  IF from > Len(s) THEN 0
  ELSE IF s[from] = "F" THEN from ELSE FindFence(s, from + 1)

\* index of the last token of the match that starts at p, or 0
MatchEnd(s, p) ==
  IF s[p] # "F" THEN 0
  ELSE LET body == IF p + 2 <= Len(s) /\ s[p + 1] = "w" /\ s[p + 2] = "N"
                     THEN p + 3
                   ELSE IF p + 1 <= Len(s) /\ s[p + 1] = "N" THEN p + 2
                   ELSE 0
       IN IF body = 0 THEN 0 ELSE FindFence(s, body)

RECURSIVE CountFrom(_, _)
CountFrom(s, p) ==
  IF p > Len(s) THEN 0
  ELSE LET e == MatchEnd(s, p)
       IN IF e # 0 THEN 1 + CountFrom(s, e + 1) ELSE CountFrom(s, p + 1)

\* (aiResponse.match(re) || []).length
CodeBlockCount(s) == CountFrom(s, 1)

(* --------------------------- generateFileName -------------------------- *)
\* language.toLowerCase() of the sample tags
toLowerCase(l) ==
  CASE l = "HTML" -> "html" [] l = "JS" -> "js" [] OTHER -> l

\* the switch on the language and, in its default arm, the content sniffing;
\* content is the set of markers the code text includes
BaseAndExt(content, lang) ==
  CASE lang = "html" -> [base |-> "index", ext |-> "html"]
    [] lang = "css" -> [base |-> "styles", ext |-> "css"]
    [] lang \in {"javascript", "js"} -> [base |-> "script", ext |-> "js"]
    [] lang \in {"typescript", "ts"} -> [base |-> "app", ext |-> "ts"]
    [] lang \in {"python", "py"} -> [base |-> "main", ext |-> "py"]
    [] lang = "json" -> [base |-> "package", ext |-> "json"]
    [] OTHER ->
         IF content \cap {"<!DOCTYPE html>", "<html"} # {}
           THEN [base |-> "index", ext |-> "html"]
         ELSE IF content \cap {"body {", "@media"} # {}
           THEN [base |-> "styles", ext |-> "css"]
         ELSE IF content \cap {"function", "const ", "let "} # {}
           THEN [base |-> "script", ext |-> "js"]
         ELSE [base |-> "file", ext |-> "txt"]

\* generateFileName(content, language, index) on JavaScript values: a
\* language that is not a string has no toLowerCase method, so the call
\* throws before anything else is computed.  The name is the record
\* [base, suffix, ext]; suffix 0 stands for "no suffix".
generateFileName_noIndex(content, language, index) ==
  IF language.t # "string" THEN TypeError
  ELSE LET be == BaseAndExt(content, toLowerCase(language.v))
       IN [base |-> be.base, suffix |-> Num(0), ext |-> be.ext]
generateFileName(content, language, index) ==
  IF language.t # "string" THEN TypeError
  ELSE LET be == BaseAndExt(content, toLowerCase(language.v))
       IN [base |-> be.base,
           suffix |-> IF index = Num(0) THEN Num(0)
                      ELSE IF index.t = "number" THEN Num(index.v + 1)
                      ELSE Str("NaN"),
           ext |-> be.ext]

(* ------------------------------ cancel token --------------------------- *)
\* Token objects live in a heap: tokens[t] is the cancelled flag of the
\* t-th object created.  createCancelToken allocates a new object with
\* cancelled: false; the new object is the last one of the heap.
createCancelToken_shared(heap) ==
  IF heap = <<>> THEN <<FALSE>> ELSE [heap EXCEPT ![Len(heap)] = FALSE]
createCancelToken(heap) == Append(heap, FALSE)

\* token.cancel(): token.cancelled = true
cancel(heap, t) == [heap EXCEPT ![t] = TRUE]

(* ------------------------------ message log ---------------------------- *)
\* setMessages(prev => [...prev, m])
AppendMessage_front(log, m) == <<m>> \o log
AppendMessage(log, m) == Append(log, m)

userMessage(text, clock) ==
  [id |-> clock, sender |-> "user", content |-> Str(text), type |-> "normal",
   metadata |-> Undefined]

\* the aiMessage literal of handleFileGeneration (lines 828-839, 876-887);
\* estimatedLines is left out of the metadata
aiMessage(clock, aiResponse, nBlocks, filesCreated) ==
  [id |-> clock, sender |-> "ai", content |-> aiResponse,
   type |-> IF nBlocks > 0 THEN "code" ELSE "normal",
   metadata |-> IF Len(filesCreated) > 0
                  THEN [filesGenerated |-> filesCreated,
                        technologies |-> <<"HTML", "CSS", "JavaScript">>]
                ELSE Undefined]

(* ------------------------------ simulateTyping ------------------------- *)
\* The texts held in liveCoding.content.  simulateTyping builds them from
\* lines = code.split('\n'): Text(k, nl) is the text of the first k lines of
\* the code, joined by '\n' and, when nl, ended by one more '\n'.  The
\* empty string is Text(0, FALSE), the code itself Text(lines.length, FALSE).
Text(k, nl) == [lines |-> k, nl |-> nl]

\* the files simulateTyping is applied to: (fileName, language)
TypedFiles == {<<"index.html", "html">>, <<"script.js", "javascript">>}

\* `lines.length > 50 ? 'complex' : lines.length > 25 ? 'medium' : 'simple'`
complexity(n) ==
  IF n > 50 THEN "complex" ELSE IF n > 25 THEN "medium" ELSE "simple"

\* Math.round((i / n) * 100), line 519, as the set of values it can take.
\* Math.round rounds to the nearest integer, a half upwards.  The quotient
\* and the product are IEEE doubles: where 100 i / n is exactly a half the
\* computed double is the half or lies just below it (23 / 40 * 100 is
\* 57.49999999999999), so both neighbours are admitted there.
MathRound(i, n) ==
  LET q == (200 * i + n) \div (2 * n)
  IN IF (200 * i + n) % (2 * n) = 0 THEN {q - 1, q} ELSE {q}

(* ------------------------ the server: /api/ask ------------------------- *)
\* The text of a file is a sequence of chunks; '' is <<>>.  A file bundle
\* is the sequence of its entries in insertion order, which is the order of
\* Object.entries; {} is <<>>.
CalculatorFiles ==
  <<[name |-> "index.html", content |-> <<"calculator page">>,
     language |-> "html"],
    [name |-> "style.css", content |-> <<"calculator styles">>,
     language |-> "css"],
    [name |-> "script.js", content |-> <<"calculator script">>,
     language |-> "javascript"]>>

TodoFiles ==
  <<[name |-> "index.html", content |-> <<"todo page">>, language |-> "html"],
    [name |-> "style.css", content |-> <<"todo styles">>, language |-> "css"],
    [name |-> "script.js", content |-> <<"todo script">>,
     language |-> "javascript"]>>

\* an object holding the entries of a bundle: global.projectFiles, the
\* `files` of a response
Obj(entries) == [t |-> "object", entries |-> entries]

\* the outcome of reading an identifier that is not declared in scope
ReferenceError == [t |-> "ReferenceError"]

\* What the identifier `files` denotes at Object.entries(files) in each
\* branch: the const of the calculator build block (line 58) is in scope at
\* line 229; the todo branch declares no `files` (its bundle is assigned to
\* global.projectFiles at line 243), nor does any enclosing scope, so the
\* read at line 527 throws.
ScopeFiles(branch) ==
  IF branch = "calculator" THEN Obj(CalculatorFiles) ELSE ReferenceError

\* `!v` for the request fields: undefined and '' are falsy
Falsy_undefinedOnly(v) == v = Undefined
Falsy(v) == v = Undefined \/ v = Str("")

\* the paths under ai-generated the model distinguishes
Paths ==
  {"index.html", "style.css", "script.js", "notes/a.txt", ".env",
   "../evil.txt"}

\* the items a path passes through, path.split('/')
Segments(path) ==
  CASE path = "notes/a.txt" -> <<"notes", "a.txt">>
    [] path = "../evil.txt" -> <<"..", "evil.txt">>
    [] OTHER -> <<path>>

\* path.join(aiGenDir, fileName), relative to aiGenDir, for the file names
\* of the model: join normalizes its result, which drops the empty segment
\* of a leading '/'; it leaves a leading '..' in place
path_join(fileName) ==
  CASE fileName = "/index.html" -> "index.html"
    [] OTHER -> fileName

\* path.dirname(filePath) relative to aiGenDir: "." is aiGenDir itself,
\* ".." its parent, process.cwd()
dirname(path) ==
  CASE path = "notes/a.txt" -> "notes"
    [] path = "../evil.txt" -> ".."
    [] OTHER -> "."

\* fs.mkdirSync(dir, {recursive: true}) on the set of subdirectories of
\* aiGenDir; aiGenDir and its parent are no members of the set
mkdirSync(dirs, dir) == IF dir \in {".", ".."} THEN dirs ELSE dirs \cup {dir}

Absent == [exists |-> FALSE, content |-> <<>>]

\* the output directory before the server starts: missing, empty, or
\* holding a page left by an earlier run
InitialDisks ==
  {[dir |-> FALSE, dirs |-> {}, files |-> [p \in Paths |-> Absent]],
   [dir |-> TRUE, dirs |-> {}, files |-> [p \in Paths |-> Absent]],
   [dir |-> TRUE, dirs |-> {},
    files |-> [p \in Paths |->
                 IF p = "script.js"
                   THEN [exists |-> TRUE, content |-> <<"old script">>]
                 ELSE Absent]]}

\* fs.writeFileSync(filePath, content, 'utf8'): the file holds content
writeFileSync_append(fsFiles, path, content) ==
  [fsFiles EXCEPT ![path] = [exists |-> TRUE,
                             content |-> @.content \o content]]
writeFileSync(fsFiles, path, content) ==
  [fsFiles EXCEPT ![path] = [exists |-> TRUE, content |-> content]]

\* a writeFileSync that throws: the file was not opened, or was opened and
\* truncated before the write failed
FailedWrite(fsFiles, path, truncated) ==
  IF truncated
    THEN [fsFiles EXCEPT ![path] = [exists |-> TRUE, content |-> <<>>]]
  ELSE fsFiles

\* Object.entries(files).forEach(([filename, file]) => writeFileSync(..))
\* from entry k on (lines 229-233); the write of entry failAt throws, which
\* ends the forEach.
RECURSIVE WriteEntries_skipFailed(_, _, _, _, _)
WriteEntries_skipFailed(fsFiles, entries, k, failAt, truncated) ==
  IF k > Len(entries)
    THEN [files |-> fsFiles, threw |-> failAt \in 1..Len(entries)]
  ELSE IF k = failAt
    THEN WriteEntries_skipFailed(
           FailedWrite(fsFiles, entries[k].name, truncated), entries, k + 1,
           failAt, truncated)
  ELSE WriteEntries_skipFailed(
         writeFileSync(fsFiles, entries[k].name, entries[k].content),
         entries, k + 1, failAt, truncated)
RECURSIVE WriteEntries(_, _, _, _, _)
WriteEntries(fsFiles, entries, k, failAt, truncated) ==
  IF k > Len(entries) THEN [files |-> fsFiles, threw |-> FALSE]
  ELSE IF k = failAt
    THEN [files |-> FailedWrite(fsFiles, entries[k].name, truncated),
          threw |-> TRUE]
  ELSE WriteEntries(
         writeFileSync(fsFiles, entries[k].name, entries[k].content),
         entries, k + 1, failAt, truncated)

\* the branch of the if / else if chain at lines 53, 238, 536: calculator
\* is tested first
Branch(prompt) ==
  IF "calculator" \in SubstringsOf(prompt) THEN "calculator"
  ELSE IF "todo" \in SubstringsOf(prompt) THEN "todo"
  ELSE "other"

\* the response texts of lines 54, 236, 239, 534 and 538
ResponseText(branch, built) ==
  CASE branch = "calculator" /\ built -> "Calculator app created!"
    [] branch = "calculator" -> "I'll create a modern calculator app"
    [] branch = "todo" /\ built -> "Todo List app created!"
    [] branch = "todo" -> "I'll build a feature-rich todo list app"
    [] OTHER -> "I can help you build that!"

\* appPlan (lines 552-565): each of its three conditionals tests 'todo'
\* first, then 'calculator'
AppPlan(prompt) ==
  LET words == SubstringsOf(prompt)
  IN IF "todo" \in words
       THEN [title |-> "Todo List App",
             description |-> "Build a todo list application",
             features |-> <<"Add/remove tasks", "Mark complete",
                            "Filter tasks", "Local storage">>]
     ELSE IF "calculator" \in words
       THEN [title |-> "Calculator App",
             description |-> "Build a calculator application",
             features |-> <<"Basic arithmetic", "Keyboard support",
                            "Modern design", "Error handling">>]
     ELSE [title |-> "Custom App",
           description |-> "Build a custom application",
           features |-> <<"Custom functionality", "Modern design",
                          "Responsive layout">>]

\* null
Null == [t |-> "null"]

(* -------------------------------- state -------------------------------- *)
VARIABLES
  projectFiles,        \* global.projectFiles of the server process
  disk,                \* the ai-generated directory
  exchanges,           \* the requests the server handled, with its answers
  typings,             \* the simulateTyping calls made so far
  named,               \* the code blocks of a response named so far
  messages,            \* useState<ChatMessage[]>
  isLoading,           \* useState(false)
  currentStage,        \* useState<string>('')
  liveCoding,          \* useState<LiveCodingState>
  isGenerationMode,    \* useState(true)
  generationComplete,  \* useState(false)
  errorAlerts,         \* useState<string[]>([])
  cancelToken,         \* useState<CancelToken | null>(null): a heap index
  tokens,              \* the heap of CancelToken objects
  attempts,            \* the handleAIResponse calls made so far
  now,                 \* Date.now()
  onConsoleLog         \* whether the optional prop onConsoleLog is passed

\* the state of the chat workflow
chatVars == <<messages, isLoading, currentStage, liveCoding, isGenerationMode,
              generationComplete, errorAlerts, cancelToken, tokens, attempts,
              now, onConsoleLog>>

\* the state of the server
serverVars == <<projectFiles, disk, exchanges>>

vars == <<chatVars, typings, named, serverVars>>

InitChat ==
  /\ messages = <<[id |-> InitialMessageId, sender |-> "ai",
                   content |-> Str("greeting"), type |-> "system",
                   metadata |-> Undefined]>>
  /\ isLoading = FALSE
  /\ currentStage = ""
  /\ liveCoding = [fileName |-> "", content |-> Text(0, FALSE),
                   isActive |-> FALSE,
                   language |-> "", progress |-> 0, complexity |-> "",
                   patterns |-> <<>>]
  /\ isGenerationMode = TRUE
  /\ generationComplete = FALSE
  /\ errorAlerts = <<>>
  /\ cancelToken = NullToken
  /\ tokens = <<>>
  /\ attempts = <<>>
  /\ now = InitialMessageId + 1
  /\ onConsoleLog \in BOOLEAN
  /\ typings = <<>>
  /\ named = <<>>

\* the component mounted, the server not yet asked anything
Init ==
  /\ InitChat
  /\ projectFiles = Undefined
  /\ disk = [dir |-> FALSE, dirs |-> {},
             files |-> [p \in Paths |-> Absent]]
  /\ exchanges = <<>>

\* the server process started: global.projectFiles is not yet assigned
InitServer ==
  /\ InitChat
  /\ onConsoleLog
  /\ projectFiles = Undefined
  /\ disk \in InitialDisks
  /\ exchanges = <<>>

(* ------------------------- handleFileGeneration ------------------------ *)
\* `if (token.cancelled) break;` at the head of each iteration of the file
\* loops (lines 803 and 860)
LoopBreaks_never(cancelled) == FALSE
LoopBreaks(cancelled) == cancelled

\* index of the code block the file loop takes up first: `let i = 0`
FirstBlock_last(nBlocks) == nBlocks - 1
FirstBlock(nBlocks) == 0

\* The synchronous run of a file loop (lines 801-820, 858-874) over nBlocks
\* code blocks, up to its first await.  Both loops call
\* generateFileName(code, i): the loop index is bound to the parameter
\* `language` and `index` is left undefined.  The result is how the run
\* ends and which block indices it took up:
\*   "skip"   no code blocks, the loop body never runs
\*   "break"  the token was cancelled at the head of the iteration
\*   "throw"  generateFileName threw, onFileGenerated was not yet called
\*   "type"   onFileGenerated called, name pushed, simulateTyping awaited
FileLoop(cancelled, nBlocks) ==
  IF nBlocks <= 0 THEN [end |-> "skip", taken |-> <<>>]
  ELSE IF LoopBreaks(cancelled) THEN [end |-> "break", taken |-> <<>>]
  ELSE LET i == FirstBlock(nBlocks)
           fileName == generateFileName({}, Num(i), Undefined)
       IN IF fileName = TypeError
            THEN [end |-> "throw", taken |-> <<i>>]
          ELSE [end |-> "type", taken |-> <<i>>]

\* the call generateFileName(code, i) throws for every index, so no run of
\* a file loop reaches onFileGenerated or simulateTyping
TypingUnreachable ==
  \A c \in BOOLEAN, n \in 0..(MaxBlocks + 1) : FileLoop(c, n).end # "type"

\* a new handleAIResponse call; reqs lists the network requests it issued
\* and userAt the place of its user message in the log; aiAt is the length
\* of the log when the call ends, before the messages it appends
NewAttempt(p, t, pc0, stages0) ==
  [prompt |-> p, tok |-> t, pc |-> pc0, stages |-> stages0, blocks |-> -1,
   taken |-> <<>>, aiMsgs |-> 0, netFailed |-> FALSE, fellBack |-> FALSE,
   erred |-> FALSE, outcome |-> "running", reqs |-> <<>>,
   userAt |-> Len(messages) + 1, aiAt |-> 0]

\* fetch(url, {method: 'POST', body: JSON.stringify({prompt: userInput, ..})})
\* (lines 782-788 and 919-930) puts one request on the wire
fetch_twice(reqs, url, userInput) ==
  reqs \o <<[url |-> url, prompt |-> userInput],
            [url |-> url, prompt |-> userInput]>>
fetch(reqs, url, userInput) ==
  Append(reqs, [url |-> url, prompt |-> userInput])

\* The finally block of handleAIResponse (lines 948-953), run when the call
\* of attempt a ends with record att, log msgs and alerts errs.
Finally_reset(a, att, msgs, errs) ==
  /\ attempts' = [attempts EXCEPT ![a] = [att EXCEPT !.pc = "done"]]
  /\ messages' = msgs
  /\ errorAlerts' = errs
  /\ isLoading' = FALSE
  /\ currentStage' = ""
  /\ liveCoding' = [liveCoding EXCEPT !.isActive = FALSE]
  /\ cancelToken' = NullToken
  /\ tokens' = [tokens EXCEPT ![att.tok] = FALSE]
  /\ UNCHANGED <<now, onConsoleLog>>
Finally(a, att, msgs, errs) ==
  /\ attempts' = [attempts EXCEPT ![a] = [att EXCEPT !.pc = "done"]]
  /\ messages' = msgs
  /\ errorAlerts' = errs
  /\ isLoading' = FALSE
  /\ currentStage' = ""
  /\ liveCoding' = [liveCoding EXCEPT !.isActive = FALSE]
  /\ cancelToken' = NullToken
  /\ UNCHANGED <<tokens, now, onConsoleLog>>

\* An exception leaves handleFileGeneration: the catch block of
\* handleAIResponse (lines 944-947) adds an error alert, then finally.
ErrorExit(a, att, msgs) ==
  Finally(a, [att EXCEPT !.erred = TRUE, !.outcome = "failed",
                         !.aiMsgs = @ + Len(msgs) - Len(messages),
                         !.aiAt = Len(messages)], msgs,
          Append(errorAlerts, "Failed to process your request"))

\* handleFileGeneration reaches setCurrentStage('complete') (line 892) and
\* returns; handleAIResponse runs its finally block.
CompleteExit_noFinally(a, att, msgs) ==
  /\ attempts' = [attempts EXCEPT ![a] =
                    [att EXCEPT !.stages = Append(@, "complete"),
                                !.outcome = "complete", !.pc = "done",
                                !.aiMsgs = @ + Len(msgs) - Len(messages),
                                !.aiAt = Len(messages)]]
  /\ messages' = msgs
  /\ currentStage' = "complete"
  /\ UNCHANGED <<isLoading, liveCoding, errorAlerts, cancelToken, tokens, now,
                 onConsoleLog>>
CompleteExit(a, att, msgs) ==
  Finally(a, [att EXCEPT !.stages = Append(@, "complete"),
                         !.outcome = "complete",
                         !.aiMsgs = @ + Len(msgs) - Len(messages),
                         !.aiAt = Len(messages)], msgs,
          errorAlerts)

\* The catch block of handleFileGeneration (lines 849-890), entered with
\* attempt record att and log msgs.  onConsoleLog is called without `?.`:
\* when the prop is absent the call throws out of the catch block.  Else
\* the canned response is scanned for code blocks, the file loop runs, the
\* response is appended to the log, and line 892 is reached.
CatchFallback_silent(a, att, msgs) ==
  LET att1 == [att EXCEPT !.fellBack = TRUE]
  IN IF ~onConsoleLog THEN ErrorExit(a, att1, msgs)
     ELSE \E tpl \in 1..2 :
            LET nBlocks == CodeBlockCount(LocalTemplate(tpl))
                loop == FileLoop(tokens[att.tok], nBlocks)
                att2 == [att1 EXCEPT !.taken = @ \o loop.taken]
            IN CASE loop.end \in {"skip", "break"} ->
                      CompleteExit(a, att2, msgs)
                 [] loop.end = "throw" -> ErrorExit(a, att2, msgs)
                 [] OTHER -> FALSE
CatchFallback(a, att, msgs) ==
  LET att1 == [att EXCEPT !.fellBack = TRUE]
  IN IF ~onConsoleLog THEN ErrorExit(a, att1, msgs)
     ELSE \E tpl \in 1..2 :
            LET nBlocks == CodeBlockCount(LocalTemplate(tpl))
                loop == FileLoop(tokens[att.tok], nBlocks)
                att2 == [att1 EXCEPT !.taken = @ \o loop.taken]
            IN CASE loop.end \in {"skip", "break"} ->
                      CompleteExit(a, att2,
                        AppendMessage(msgs,
                          aiMessage(now, [local |-> tpl], nBlocks, <<>>)))
                 [] loop.end = "throw" -> ErrorExit(a, att2, msgs)
                 [] OTHER -> FALSE

(* ------------------------------- actions ------------------------------- *)
\* handleSubmit(p), from the input box or a suggestion chip, after its
\* test of line 958: the user message, then the synchronous head of
\* handleAIResponse and, on the generation route, of handleFileGeneration
\* up to its first await.
SubmitAccepted(p) ==
  /\ Len(attempts) < MaxAttempts
  /\ LET heap == createCancelToken(tokens)
         token == Len(heap)
         shouldGenerateCode == isCodeGenerationRequest(p)
     IN /\ messages' = AppendMessage(messages, userMessage(p, now))
        /\ isLoading' = TRUE
        /\ tokens' = heap
        /\ cancelToken' = token
        /\ IF shouldGenerateCode /\ isGenerationMode
             THEN /\ currentStage' = StageScript[1]
                  /\ liveCoding' = [liveCoding EXCEPT !.isActive = TRUE,
                                                      !.fileName = "Loading...",
                                                      !.content =
                                                        Text(0, FALSE)]
                  /\ attempts' = Append(attempts,
                       NewAttempt(p, token, "delay", <<StageScript[1]>>))
             ELSE LET endpoint == IF isAgentMode(p) THEN "/api/agent/generate"
                                  ELSE "/api/ask"
                      att == NewAttempt(p, token,
                                        IF isAgentMode(p) THEN "agentFetch"
                                        ELSE "askFetch", <<>>)
                  IN /\ currentStage' = ""
                     /\ liveCoding' = [liveCoding EXCEPT !.isActive = FALSE]
                     /\ attempts' = Append(attempts,
                          [att EXCEPT !.reqs = fetch(@, endpoint, p)])
  /\ UNCHANGED <<isGenerationMode, generationComplete, errorAlerts, now,
                 onConsoleLog>>

\* `if (!messageText || isLoading) return;` (line 958), then the rest
handleSubmit(p) ==
  /\ p # ""
  /\ ~isLoading
  /\ SubmitAccepted(p)

\* The listener of the window event autoStartGeneration (lines 130-153).
\* The effect has no dependencies, so the listener calls the handleSubmit
\* of the first render for ever: in that closure isLoading is the false of
\* the first render, whatever the state is now, and the test of line 958
\* lets every non-empty prompt pass.
handleAutoStart(p) ==
  /\ p # ""
  /\ SubmitAccepted(p)

\* The Cancel button, rendered while isLoading && currentStage (line 1122).
handleCancel ==
  /\ isLoading
  /\ currentStage # ""
  /\ IF cancelToken # NullToken
       THEN /\ tokens' = cancel(tokens, cancelToken)
            /\ cancelToken' = NullToken
       ELSE UNCHANGED <<tokens, cancelToken>>
  /\ isLoading' = FALSE
  /\ currentStage' = ""
  /\ liveCoding' = [liveCoding EXCEPT !.isActive = FALSE]
  /\ UNCHANGED <<messages, isGenerationMode, generationComplete, errorAlerts,
                 attempts, now, onConsoleLog>>

\* A pacing timer of handleFileGeneration fires (lines 769-778): the token
\* is checked; then the next stage is entered or, after the third delay,
\* the request to /api/ask is issued.
StageDelayElapsed(a) ==
  LET att == attempts[a]
      n == Len(att.stages)
  IN /\ att.pc = "delay"
     /\ IF tokens[att.tok]
          THEN Finally(a, [att EXCEPT !.outcome = "cancelled"], messages,
                       errorAlerts)
        ELSE IF n < Len(StageScript)
          THEN /\ currentStage' = StageScript[n + 1]
               /\ attempts' = [attempts EXCEPT
                                 ![a].stages = Append(@, StageScript[n + 1])]
               /\ UNCHANGED <<messages, isLoading, liveCoding, errorAlerts,
                              cancelToken, tokens, now, onConsoleLog>>
        ELSE /\ attempts' = [attempts EXCEPT
                               ![a].pc = "fetch",
                               ![a].reqs = fetch(@, "/api/ask", att.prompt)]
             /\ UNCHANGED <<messages, isLoading, currentStage, liveCoding,
                            errorAlerts, cancelToken, tokens, now,
                            onConsoleLog>>
     /\ UNCHANGED <<isGenerationMode, generationComplete>>

\* The fetch of handleFileGeneration settles (lines 782-792): it rejects,
\* or resolves with a status that is or is not ok.
FetchSettles(a) ==
  LET att == attempts[a]
  IN /\ att.pc = "fetch"
     /\ \E res \in {"reject", "notOk", "ok"} :
          IF res = "ok"
            THEN /\ attempts' = [attempts EXCEPT ![a].pc = "json"]
                 /\ UNCHANGED <<messages, isLoading, currentStage, liveCoding,
                                errorAlerts, cancelToken, tokens, now,
                                onConsoleLog>>
          ELSE CatchFallback(a, [att EXCEPT !.netFailed = TRUE], messages)
     /\ UNCHANGED <<isGenerationMode, generationComplete>>

\* response.json() settles (lines 794-847).  It rejects (a body that is
\* not JSON), which enters the catch block, or resolves with a response
\* text holding n code blocks and the rest of the try block runs.
JsonSettles(a) ==
  LET att == attempts[a]
  IN /\ att.pc = "json"
     /\ \E parsed \in BOOLEAN, n \in 0..MaxBlocks :
          LET nBlocks == CodeBlockCount(ServerResponse(n))
              loop == FileLoop(tokens[att.tok], nBlocks)
              filesCreated == <<>>
              att1 == [att EXCEPT !.blocks = nBlocks,
                                  !.taken = @ \o loop.taken]
          IN CASE ~parsed ->
                    /\ n = 0
                    /\ CatchFallback(a, att, messages)
                    /\ UNCHANGED <<isGenerationMode, generationComplete>>
               [] parsed /\ loop.end \in {"skip", "break"} ->
                    /\ CompleteExit(a, att1,
                         AppendMessage(messages,
                           aiMessage(now, [server |-> n], nBlocks,
                                     filesCreated)))
                    /\ generationComplete' =
                         IF Len(filesCreated) > 0 THEN TRUE
                         ELSE generationComplete
                    /\ isGenerationMode' =
                         IF Len(filesCreated) > 0 THEN FALSE
                         ELSE isGenerationMode
               [] parsed /\ loop.end = "throw" ->
                    /\ CatchFallback(a, att1, messages)
                    /\ UNCHANGED <<isGenerationMode, generationComplete>>
               [] OTHER -> FALSE

\* The fetch of the else branch of handleAIResponse settles (lines
\* 919-943); its response is parsed and, but for the checkpoint log,
\* dropped.
PlainFetchSettles_pending(a) ==
  /\ attempts[a].pc \in {"askFetch", "agentFetch"}
  /\ UNCHANGED chatVars
PlainFetchSettles(a) ==
  LET att == attempts[a]
  IN /\ att.pc \in {"askFetch", "agentFetch"}
     /\ \E res \in {"reject", "notOk", "ok"} :
          IF res = "ok"
            THEN Finally(a, [att EXCEPT !.outcome = "complete"], messages,
                         errorAlerts)
          ELSE ErrorExit(a, [att EXCEPT !.netFailed = TRUE], messages)
     /\ UNCHANGED <<isGenerationMode, generationComplete>>

\* the clock advances by a millisecond
Tick ==
  /\ now < InitialMessageId + 1 + MaxTicks
  /\ now' = now + 1
  /\ UNCHANGED <<messages, isLoading, currentStage, liveCoding,
                 isGenerationMode, generationComplete, errorAlerts,
                 cancelToken, tokens, attempts, onConsoleLog>>

Next ==
  \/ \E p \in Prompts : handleSubmit(p)
       /\ UNCHANGED <<typings, named, serverVars>>
  \/ handleCancel
       /\ UNCHANGED <<typings, named, serverVars>>
  \/ \E a \in DOMAIN attempts : StageDelayElapsed(a)
       /\ UNCHANGED <<typings, named, serverVars>>
  \/ \E a \in DOMAIN attempts : FetchSettles(a)
       /\ UNCHANGED <<typings, named, serverVars>>
  \/ \E a \in DOMAIN attempts : JsonSettles(a)
       /\ UNCHANGED <<typings, named, serverVars>>
  \/ \E a \in DOMAIN attempts : PlainFetchSettles(a)
       /\ UNCHANGED <<typings, named, serverVars>>
  \/ Tick
       /\ UNCHANGED <<typings, named, serverVars>>

Spec == Init /\ [][Next]_vars

\* the chat workflow with the autoStartGeneration events of the page
NextAutoStart ==
  \/ Next
  \/ \E p \in Prompts : handleAutoStart(p)
       /\ UNCHANGED <<typings, named, serverVars>>

SpecAutoStart == Init /\ [][NextAutoStart]_vars

\* the next step of attempt a: a pacing timer fires or a network call
\* settles
AttemptStep(a) ==
  /\ a \in DOMAIN attempts
  /\ \/ StageDelayElapsed(a)
     \/ FetchSettles(a)
     \/ JsonSettles(a)
     \/ PlainFetchSettles(a)
  /\ UNCHANGED <<typings, named, serverVars>>

\* the chat workflow when every timer set by setTimeout fires and every
\* network call returns or fails in the end
FairSpec == Spec /\ \A a \in 1..MaxAttempts : WF_vars(AttemptStep(a))

(* ----------------------------- POST /api/ask --------------------------- *)
\* the request bodies sent to /api/ask
AskBodies ==
  [prompt : {Undefined, Str(""), Str("hello"), Str("Calculator please"),
             Str("my TODO list"), Str("a calculator and a todo list"),
             Str("build me a todo app")},
   requestType : {Undefined, Str("chat"), Str("plan"), Str("build")}]

\* `const { prompt, requestType = 'chat' } = req.body`
RequestType(body) ==
  IF body.requestType = Undefined THEN "chat" ELSE body.requestType.v

\* the request enters one of the two `if (requestType === 'build')` blocks
Builds(body) ==
  /\ ~Falsy(body.prompt)
  /\ Branch(body.prompt.v) # "other"
  /\ RequestType(body) = "build"

\* The handler of POST /api/ask (lines 35-582) applied to a request body
\* in the current state; the write of bundle entry failAt fails (0: none).
\* The result is the answer and the state the handler leaves.
\*   build, calculator: mkdir, the writes, global.projectFiles = files
\*   build, todo: global.projectFiles = {..}, mkdir, Object.entries(files)
\* An exception anywhere in the try block gives the 500 envelope.
AskHandler(body, failAt, truncated) ==
  IF Falsy(body.prompt)
    THEN [status |-> 400, json |-> [error |-> "Prompt is required"],
          projectFiles |-> projectFiles, disk |-> disk]
  ELSE
    LET prompt == body.prompt.v
        requestType == RequestType(body)
        branch == Branch(prompt)
        build == Builds(body)
        assigned == IF build /\ branch = "todo" THEN Obj(TodoFiles)
                    ELSE projectFiles
        files == ScopeFiles(branch)
        written ==
          IF ~build THEN [files |-> disk.files, threw |-> FALSE]
          ELSE IF files = ReferenceError
            THEN [files |-> disk.files, threw |-> TRUE]
          ELSE WriteEntries(disk.files, files.entries, 1, failAt, truncated)
        cache == IF build /\ ~written.threw THEN files ELSE assigned
        disk1 == [disk EXCEPT !.dir = @ \/ build, !.files = written.files]
        sent == IF cache = Undefined THEN Obj(<<>>) ELSE cache
    IN IF written.threw
         THEN [status |-> 500,
               json |-> [error |-> "Internal server error",
                         success |-> FALSE],
               projectFiles |-> cache, disk |-> disk1]
       ELSE [status |-> 200,
             json |-> [response |-> ResponseText(branch, build),
                       success |-> TRUE,
                       apiUsed |-> "local",
                       showBuildButton |-> requestType = "plan",
                       appPlan |-> IF requestType = "plan"
                                     THEN AppPlan(prompt) ELSE Null,
                       files |-> sent,
                       projectSaved |-> Len(sent.entries) > 0],
             projectFiles |-> cache, disk |-> disk1]

\* a POST /api/ask request is handled
PostAsk(body, failAt, truncated) ==
  /\ Len(exchanges) < MaxRequests
  /\ failAt # 0 => (Builds(body) /\ Branch(body.prompt.v) = "calculator")
  /\ truncated => failAt # 0
  /\ LET r == AskHandler(body, failAt, truncated)
     IN /\ projectFiles' = r.projectFiles
        /\ disk' = r.disk
        /\ exchanges' = Append(exchanges,
                           [route |-> "/api/ask", body |-> body,
                            status |-> r.status, json |-> r.json,
                            failAt |-> failAt])
  /\ UNCHANGED <<chatVars, typings, named>>

(* ------------------------ POST /api/files/create ----------------------- *)
CreateBodies ==
  [fileName : {Undefined, Str("index.html"), Str("notes/a.txt"), Str(".env"),
               Str("/index.html"), Str("../evil.txt")},
   content : {Undefined, Str(""), Str("x")}]

\* the text of a JavaScript string, as chunks
Chunks(str) == IF str.v = "" THEN <<>> ELSE <<str.v>>

\* The handler of POST /api/files/create (lines 712-743); failAt = 1: the
\* write fails.
\* `if (!fileName || content === undefined)`
CreateRejects_falsyContent(body) ==
  Falsy(body.fileName) \/ Falsy(body.content)
CreateRejects(body) == Falsy(body.fileName) \/ body.content = Undefined

CreateHandler(body, failAt, truncated) ==
  IF CreateRejects(body)
    THEN [status |-> 400,
          json |-> [error |-> "fileName and content are required"],
          disk |-> disk]
  ELSE
    LET fileName == body.fileName.v
        filePath == path_join(fileName)
        written == WriteEntries(disk.files,
                     <<[name |-> filePath, content |-> Chunks(body.content)]>>,
                     1, failAt, truncated)
        disk1 == [dir |-> TRUE,
                  dirs |-> mkdirSync(disk.dirs, dirname(filePath)),
                  files |-> written.files]
    IN IF written.threw
         THEN [status |-> 500, json |-> [error |-> "Failed to create file"],
               disk |-> disk1]
       ELSE [status |-> 200,
             json |-> [success |-> TRUE, fileName |-> fileName,
                       path |-> <<"ai-generated", filePath>>],
             disk |-> disk1]

\* a POST /api/files/create request is handled
PostFilesCreate(body, failAt, truncated) ==
  /\ Len(exchanges) < MaxRequests
  /\ failAt # 0 => ~CreateRejects(body)
  /\ truncated => failAt # 0
  /\ LET r == CreateHandler(body, failAt, truncated)
     IN /\ disk' = r.disk
        /\ exchanges' = Append(exchanges,
                           [route |-> "/api/files/create", body |-> body,
                            status |-> r.status, json |-> r.json,
                            failAt |-> failAt])
  /\ UNCHANGED <<projectFiles, chatVars, typings, named>>

(* -------------------------- GET /api/files/list ------------------------ *)
\* item.startsWith('.')
startsWithDot(item) == item \in {".env", ".."}

\* scanDirectory reaches the file at path: it lies under aiGenDir and none
\* of the items on the way to it is skipped (line 779); the scan descends
\* into directories (lines 802-804)
Scanned_topOnly(path) ==
  Len(Segments(path)) = 1 /\ ~startsWithDot(Segments(path)[1])
Scanned(path) ==
  \A k \in DOMAIN Segments(path) : ~startsWithDot(Segments(path)[k])

\* path.extname(item).toLowerCase() mapped to the type (lines 788-796)
TypeOf(path) ==
  CASE path \in {"index.html"} -> "html"
    [] path \in {"style.css"} -> "css"
    [] path \in {"script.js"} -> "javascript"
    [] OTHER -> "text"

\* what can go wrong in a scan: nothing, readFileSync throws for one file,
\* or statSync throws for one (the file is gone since readdirSync, or it
\* is a link whose target is missing)
ListFaults ==
  {[kind |-> "none", path |-> ""]}
    \cup [kind : {"read", "stat"}, path : {p \in Paths : Scanned(p)}]

\* The handler of GET /api/files/list (lines 765-816).  readFileSync is
\* called inside the inner try, whose catch skips the file; statSync is
\* called outside it, so its exception reaches the outer catch, which
\* answers {files: {}}.
ListHandler(fault) ==
  LET found == {p \in Paths : disk.files[p].exists /\ Scanned(p)}
      kept == IF fault.kind = "read" THEN found \ {fault.path} ELSE found
  IN IF ~disk.dir \/ fault.kind = "stat"
       THEN [status |-> 200, json |-> [files |-> [p \in {} |-> Absent]]]
     ELSE [status |-> 200,
           json |-> [files |-> [p \in kept |->
                                  [content |-> disk.files[p].content,
                                   type |-> TypeOf(p)]]]]

\* a GET /api/files/list request is handled
GetFilesList(fault) ==
  /\ Len(exchanges) < MaxRequests
  /\ fault.kind # "none" => (disk.dir /\ disk.files[fault.path].exists)
  /\ LET r == ListHandler(fault)
     IN exchanges' = Append(exchanges,
                       [route |-> "/api/files/list", body |-> Undefined,
                        status |-> r.status, json |-> r.json,
                        failAt |-> 0, fault |-> fault])
  /\ UNCHANGED <<projectFiles, disk, chatVars, typings, named>>

NextServer ==
  \/ \E body \in AskBodies, failAt \in 0..Len(CalculatorFiles),
        truncated \in BOOLEAN : PostAsk(body, failAt, truncated)
  \/ \E body \in CreateBodies, failAt \in 0..1, truncated \in BOOLEAN :
       PostFilesCreate(body, failAt, truncated)
  \/ \E fault \in ListFaults : GetFilesList(fault)

SpecServer == InitServer /\ [][NextServer]_vars

(* ------------------------- simulateTyping, applied --------------------- *)
\* simulateTyping(code, fileName, language) is called with a code of n
\* lines (lines 500-532): the header of the file is shown, then the first
\* pass of the loop emits line 0 and reports its progress, and the call
\* waits on its typing timer.
simulateTyping(n, fileName, language) ==
  /\ typings = <<>>
  /\ \E progress \in MathRound(0, n) :
       liveCoding' = [liveCoding EXCEPT
                        !.fileName = fileName, !.language = language,
                        !.complexity = complexity(n),
                        !.patterns = <<"AI-Powered Generation",
                                       "Production Ready",
                                       "Modern Architecture">>,
                        !.isActive = TRUE,
                        !.content = Text(1, TRUE),
                        !.progress = progress]
  /\ typings' = Append(typings, [n |-> n, i |-> 0, pc |-> "await"])
  /\ UNCHANGED <<messages, isLoading, currentStage, isGenerationMode,
                 generationComplete, errorAlerts, cancelToken, tokens,
                 attempts, now, onConsoleLog, named, serverVars>>

\* The typing timer of call t fires (lines 517-535): i++; while i <
\* lines.length the next line is emitted and its progress reported; after
\* the last pass the whole code is shown with progress 100.
TypingTimerFires_stopsOnCancel(t) ==
  LET call == typings[t]
      i == call.i + 1
  IN /\ call.pc = "await"
     /\ IF i < call.n /\ \A k \in DOMAIN tokens : ~tokens[k]
          THEN /\ \E progress \in MathRound(i, call.n) :
                    liveCoding' = [liveCoding EXCEPT
                                     !.content = Text(i + 1, TRUE),
                                     !.progress = progress]
               /\ typings' = [typings EXCEPT ![t].i = i]
        ELSE IF i < call.n
          THEN /\ liveCoding' = [liveCoding EXCEPT !.isActive = FALSE]
               /\ typings' = [typings EXCEPT ![t].i = i, ![t].pc = "done"]
        ELSE /\ liveCoding' = [liveCoding EXCEPT
                                 !.content = Text(call.n, FALSE),
                                 !.progress = 100, !.isActive = FALSE]
             /\ typings' = [typings EXCEPT ![t].i = i, ![t].pc = "done"]
     /\ UNCHANGED <<messages, isLoading, currentStage, isGenerationMode,
                    generationComplete, errorAlerts, cancelToken, tokens,
                    attempts, now, onConsoleLog, named, serverVars>>
TypingTimerFires(t) ==
  LET call == typings[t]
      i == call.i + 1
  IN /\ call.pc = "await"
     /\ IF i < call.n
          THEN /\ \E progress \in MathRound(i, call.n) :
                    liveCoding' = [liveCoding EXCEPT
                                     !.content = Text(i + 1, TRUE),
                                     !.progress = progress]
               /\ typings' = [typings EXCEPT ![t].i = i]
        ELSE /\ liveCoding' = [liveCoding EXCEPT
                                 !.content = Text(call.n, FALSE),
                                 !.progress = 100, !.isActive = FALSE]
             /\ typings' = [typings EXCEPT ![t].i = i, ![t].pc = "done"]
     /\ UNCHANGED <<messages, isLoading, currentStage, isGenerationMode,
                    generationComplete, errorAlerts, cancelToken, tokens,
                    attempts, now, onConsoleLog, named, serverVars>>

NextTyping ==
  \/ \E n \in 1..MaxLines, f \in TypedFiles : simulateTyping(n, f[1], f[2])
  \/ \E t \in DOMAIN typings : TypingTimerFires(t)

SpecTyping == Init /\ [][NextTyping]_vars

(* ------------------- typing inside a generation attempt ---------------- *)
\* One pass of a file loop of handleFileGeneration up to the first await
\* of simulateTyping (lines 803-816, 860-872) for attempt a: the loop goes
\* on only while the token of the attempt is not cancelled, then
\* simulateTyping is called for a file of n lines.  The file name is an
\* input here, as in a call of simulateTyping with a name already made.
FileLoopTypes(a, n, fileName, language) ==
  /\ attempts[a].pc # "done"
  /\ ~tokens[attempts[a].tok]
  /\ simulateTyping(n, fileName, language)

\* simulateTyping called from a file loop while the user may press Cancel
\* and submit again; the timers of setTimeout fire in the end
NextTypingCancel ==
  \/ \E p \in Prompts : handleSubmit(p)
       /\ UNCHANGED <<typings, named, serverVars>>
  \/ handleCancel
       /\ UNCHANGED <<typings, named, serverVars>>
  \/ \E a \in DOMAIN attempts, n \in 1..MaxTypedLines, f \in TypedFiles :
       FileLoopTypes(a, n, f[1], f[2])
  \/ \E t \in DOMAIN typings : TypingTimerFires(t)

SpecTypingCancel ==
  /\ Init
  /\ [][NextTypingCancel]_vars
  /\ WF_vars(\E t \in DOMAIN typings : TypingTimerFires(t))

(* ------------------- naming the code blocks of a response -------------- *)
\* the language tags of the blocks: languageMatch[1], or 'text' for a fence
\* without tag (lines 706-707)
Languages == {"html", "HTML", "css", "js", "ts", "py", "json", "text"}

\* the code of a block after trim(): empty, or a text including the given
\* markers of the content sniffing
Codes ==
  {[empty |-> TRUE, includes |-> {}], [empty |-> FALSE, includes |-> {}],
   [empty |-> FALSE, includes |-> {"<html"}]}

\* One pass of `for (let i = 0; i < codeBlocks.length; i++)` of
\* sendChatMessage (lines 704-711) for block i = Len(named) of the
\* response: a block whose code is empty gets no file, every other block
\* gets the name generateFileName(code, language, i).
NameBlock(language, code) ==
  /\ Len(named) < MaxNamed
  /\ LET i == Len(named)
         fileName == IF code.empty THEN Undefined
                     ELSE generateFileName(code.includes, Str(language),
                                           Num(i))
     IN named' = Append(named, [language |-> language, code |-> code,
                                fileName |-> fileName])
  /\ UNCHANGED <<chatVars, typings, serverVars>>

NextNaming ==
  \E language \in Languages, code \in Codes : NameBlock(language, code)

SpecNaming == Init /\ [][NextNaming]_vars

(* ------------------------------ properties ----------------------------- *)
InFlight == {a \in DOMAIN attempts : attempts[a].pc # "done"}

\* attempt a was routed to handleFileGeneration
Staged(a) == attempts[a].stages # <<>>

Cancelled(a) == tokens[attempts[a].tok]

IsStageKey(k) == \E i \in DOMAIN GENERATION_STAGES : GENERATION_STAGES[i] = k

\* C1: an attempt whose token has been cancelled, at whatever point of the
\* attempt, appends no AI message to the log.
C1_NoMessageAfterCancel ==
  \A a \in DOMAIN attempts : Cancelled(a) => attempts[a].aiMsgs = 0

\* C2: once the token of an attempt is cancelled, neither file loop takes
\* up another code block of that attempt, so no file whose typing has not
\* begun is announced through onFileGenerated or typed.
C2_NoFileAfterCancel ==
  [][\A a \in DOMAIN attempts :
       Cancelled(a) => attempts'[a].taken = attempts[a].taken]_vars

\* a cancelled attempt whose response held code blocks ended with none of
\* them taken up
C2_Witness ==
  \E a \in DOMAIN attempts :
    /\ Cancelled(a)
    /\ attempts[a].blocks > 0
    /\ attempts[a].taken = <<>>
    /\ attempts[a].pc = "done"

\* C3: the message log is append-only: in every step the old log is a
\* prefix of the new log.
C3_AppendOnly ==
  [][/\ Len(messages) <= Len(messages')
     /\ SubSeq(messages', 1, Len(messages)) = messages]_vars

\* a log that grew by a user and an AI message after a cancellation
C3_Witness ==
  /\ Len(messages) >= 4
  /\ \E t \in DOMAIN tokens : tokens[t]
  /\ messages[Len(messages)].sender = "ai"

\* C4: at most one handleAIResponse call is in flight at any moment.
C4_AtMostOneInFlight == Cardinality(InFlight) <= 1

\* C5: a cancelled token stays cancelled in every later state.
C5_TokenMonotone ==
  [][\A t \in DOMAIN tokens :
       tokens[t] => t \in DOMAIN tokens' /\ tokens'[t]]_vars

\* a cancelled token whose attempt has ended, with a later token created
C5_Witness ==
  \E a \in DOMAIN attempts :
    /\ Cancelled(a)
    /\ attempts[a].pc = "done"
    /\ Len(tokens) > attempts[a].tok

\* C6: every attempt runs with a token of its own, created with cancelled
\* false when the attempt starts, and a cancel sets the flag of one token
\* only.
C6_FreshToken ==
  [][/\ \A a, b \in DOMAIN attempts' :
          a # b => attempts'[a].tok # attempts'[b].tok
     /\ \A a \in DOMAIN attempts' \ DOMAIN attempts :
          /\ attempts'[a].tok \notin DOMAIN tokens
          /\ ~tokens'[attempts'[a].tok]
     /\ \A t, u \in DOMAIN tokens :
          (t # u /\ ~tokens[t] /\ tokens'[t]) => tokens'[u] = tokens[u]
    ]_vars

\* two attempts, the token of one cancelled and the token of the other not
C6_Witness ==
  \E a, b \in DOMAIN attempts : Cancelled(a) /\ ~Cancelled(b)

\* C7: a staged attempt whose /api/ask call failed took the fallback path,
\* appended its AI message and added no error alert.
C7_FailedCallFallsBack ==
  \A a \in DOMAIN attempts :
    (Staged(a) /\ attempts[a].netFailed) =>
      /\ attempts[a].fellBack
      /\ attempts[a].aiMsgs = 1
      /\ ~attempts[a].erred

C9_GenerationModeCleared ==
  (\E a \in DOMAIN attempts : Staged(a) /\ attempts[a].outcome = "complete")
    => ~isGenerationMode

\* C10: the stage keys an attempt has entered are an initial part of
\* GENERATION_STAGES, in that order, and the code blocks the attempt has
\* taken up are an initial part of the blocks of the response, in block
\* order.
C10_StagesAndFilesInOrder ==
  \A a \in DOMAIN attempts :
    LET keys == SelectSeq(attempts[a].stages, IsStageKey)
    IN /\ Len(keys) <= Len(GENERATION_STAGES)
       /\ keys = SubSeq(GENERATION_STAGES, 1, Len(keys))
       /\ \A i \in DOMAIN attempts[a].taken : attempts[a].taken[i] = i - 1

\* an attempt went through its three staged delays and reached Complete
C10_Witness ==
  \E a \in DOMAIN attempts :
    attempts[a].stages = StageScript \o <<"complete">>

\* C11: a staged attempt that reached Complete without being cancelled has
\* entered every one of the five stages analysis, architecture, structure,
\* implementation and optimization.
C11_AllFiveStages ==
  \A a \in DOMAIN attempts :
    (Staged(a) /\ attempts[a].outcome = "complete" /\ ~Cancelled(a)) =>
      \A i \in DOMAIN GENERATION_STAGES :
        \E j \in DOMAIN attempts[a].stages :
          attempts[a].stages[j] = GENERATION_STAGES[i]

C13_ProgressMonotoneTo100 ==
  [][\A t \in DOMAIN typings :
       typings[t].pc = "await" =>
         /\ liveCoding'.progress >= liveCoding.progress
         /\ liveCoding'.progress = 100 =>
              liveCoding'.content.lines = typings[t].n]_vars

(* ------------------------ properties of the server --------------------- *)
\* the /api/ask requests handled so far whose prompt is a non-empty string
Asked ==
  {i \in DOMAIN exchanges :
     exchanges[i].route = "/api/ask" /\ ~Falsy(exchanges[i].body.prompt)}

\* the step handles one request: x' is the exchange it adds
Handles(route) ==
  /\ Len(exchanges') = Len(exchanges) + 1
  /\ exchanges'[Len(exchanges')].route = route

\* C14: a build request whose prompt contains "todo", whether or not it
\* also contains "calculator", and whose writes do not fail is answered
\* with success and with the bundle of the todo app: index.html, style.css
\* and script.js, each with non-empty content.
C14_TodoBuildGivesTodoBundle ==
  \A i \in Asked :
    LET x == exchanges[i]
    IN ("todo" \in SubstringsOf(x.body.prompt.v)
          /\ RequestType(x.body) = "build" /\ x.failAt = 0) =>
         /\ x.status = 200
         /\ x.json.success
         /\ x.json.files = Obj(TodoFiles)
         /\ \A k \in DOMAIN x.json.files.entries :
              x.json.files.entries[k].content # <<>>

\* C15: a request with a non-empty prompt string and requestType chat,
\* plan or build whose writes do not fail is answered with success true
\* and a response text, never with the 500 envelope, and a prompt without
\* keyword gets the generic response.
C15_ClassificationNeverFails ==
  \A i \in Asked :
    LET x == exchanges[i]
    IN (x.body.requestType # Undefined /\ x.failAt = 0) =>
         /\ x.status = 200
         /\ x.json.success
         /\ Branch(x.body.prompt.v) = "other" =>
              x.json.response = ResponseText("other", FALSE)

\* C16: the files mapping of an answer of /api/ask is non-empty only when
\* the request it answers is a build request whose prompt matches a
\* keyword.
C16_FilesOnlyForMatchingBuild ==
  \A i \in Asked :
    LET x == exchanges[i]
    IN (x.status = 200 /\ x.json.files # Obj(<<>>)) => Builds(x.body)

\* C17: the plan of an answer to a plan request describes the intent that
\* the response text of the same answer describes.
C17_PlanMatchesResponse ==
  \A i \in Asked :
    LET x == exchanges[i]
    IN (x.status = 200 /\ RequestType(x.body) = "plan") =>
         /\ x.json.appPlan.title = "Calculator App"
              <=> x.json.response = ResponseText("calculator", FALSE)
         /\ x.json.appPlan.title = "Todo List App"
              <=> x.json.response = ResponseText("todo", FALSE)
         /\ x.json.appPlan.title = "Custom App"
              <=> x.json.response = ResponseText("other", FALSE)

\* C18: a step that handles a POST /api/ask whose prompt is missing or
\* empty answers 400 with the error "Prompt is required" and changes
\* neither the output directory nor global.projectFiles.
C18_MissingPromptRejected ==
  [][(Handles("/api/ask")
        /\ exchanges'[Len(exchanges')].body.prompt \in {Undefined, Str("")}) =>
       /\ exchanges'[Len(exchanges')].status = 400
       /\ exchanges'[Len(exchanges')].json = [error |-> "Prompt is required"]
       /\ disk' = disk
       /\ projectFiles' = projectFiles]_vars

\* a request without prompt was rejected after a build had filled the
\* output directory and the cache
C18_Witness ==
  /\ Len(exchanges) = 2
  /\ exchanges[1].status = 200 /\ Builds(exchanges[1].body)
  /\ exchanges[2].route = "/api/ask"
  /\ exchanges[2].body.prompt = Str("")
  /\ exchanges[2].status = 400
  /\ projectFiles = Obj(CalculatorFiles)
  /\ disk.files["index.html"].exists

\* C19: a step that handles, with success, the request that the step
\* before it handled with success leaves the output directory as it was:
\* the same files with the same contents.
C19_MaterializationIdempotent ==
  [][(/\ exchanges # <<>>
      /\ Len(exchanges') = Len(exchanges) + 1
      /\ exchanges'[Len(exchanges')] = exchanges[Len(exchanges)]
      /\ exchanges[Len(exchanges)].status = 200) =>
       disk' = disk]_vars

\* the calculator bundle was materialized twice in a row over an older
\* script.js, and the directory holds the bundle
C19_Witness ==
  /\ Len(exchanges) = 2
  /\ exchanges[1] = exchanges[2]
  /\ exchanges[2].status = 200
  /\ Builds(exchanges[2].body)
  /\ \A k \in DOMAIN CalculatorFiles :
       disk.files[CalculatorFiles[k].name] =
         [exists |-> TRUE, content |-> CalculatorFiles[k].content]

\* C20: a step that handles a build request in which the write of bundle
\* entry k fails answers 500 with success false; the entries before k are
\* on disk with their new content, the entries after k are as they were
\* before the request.
C20_FailedWriteAborts ==
  [][(Handles("/api/ask") /\ exchanges'[Len(exchanges')].failAt > 0) =>
       LET x == exchanges'[Len(exchanges')]
       IN /\ x.status = 500
          /\ x.json.success = FALSE
          /\ \A j \in DOMAIN CalculatorFiles :
               /\ j < x.failAt =>
                    disk'.files[CalculatorFiles[j].name] =
                      [exists |-> TRUE, content |-> CalculatorFiles[j].content]
               /\ j > x.failAt =>
                    disk'.files[CalculatorFiles[j].name] =
                      disk.files[CalculatorFiles[j].name]]_vars

\* the write of style.css failed: index.html holds the new page, and
\* script.js still holds the older script
C20_Witness ==
  /\ exchanges # <<>>
  /\ exchanges[Len(exchanges)].failAt = 2
  /\ exchanges[Len(exchanges)].status = 500
  /\ disk.files["index.html"] =
       [exists |-> TRUE, content |-> CalculatorFiles[1].content]
  /\ disk.files["script.js"] = [exists |-> TRUE, content |-> <<"old script">>]

(* ------------------- writing files and listing them -------------------- *)
\* the files exchange x wrote, with success, as path and content pairs
Materialized(x) ==
  IF x.status # 200 THEN {}
  ELSE IF x.route = "/api/files/create"
    THEN {[path |-> path_join(x.body.fileName.v),
           content |-> Chunks(x.body.content)]}
  ELSE IF x.route = "/api/ask" /\ Builds(x.body)
    THEN {[path |-> CalculatorFiles[k].name,
           content |-> CalculatorFiles[k].content] :
            k \in DOMAIN CalculatorFiles}
  ELSE {}

\* exchange x wrote to the file at path p, with or without success
Touched(x, p) ==
  \/ /\ x.route = "/api/files/create"
     /\ x.status # 400
     /\ path_join(x.body.fileName.v) = p
  \/ /\ x.route = "/api/ask"
     /\ x.status # 400
     /\ Builds(x.body)
     /\ \E k \in DOMAIN CalculatorFiles : CalculatorFiles[k].name = p

\* C21: a step that handles GET /api/files/list answers with a mapping
\* that holds every file materialized before it, by a build request or by
\* POST /api/files/create with a name none of whose segments starts with
\* a dot, under its path in the output directory and with the content last
\* written to it, as long as that file itself is readable.
C21_WriteThenListRoundTrip ==
  [][Handles("/api/files/list") =>
       LET x == exchanges'[Len(exchanges')]
       IN \A k \in DOMAIN exchanges : \A w \in Materialized(exchanges[k]) :
            (/\ w.path \notin {".env", "../evil.txt"}
             /\ x.fault.path # w.path
             /\ \A m \in (k + 1)..Len(exchanges) :
                  ~Touched(exchanges[m], w.path)) =>
              /\ w.path \in DOMAIN x.json.files
              /\ x.json.files[w.path].content = w.content]_vars

\* C22: a step that handles GET /api/files/list answers 200 with a files
\* mapping whose keys are exactly the files under the output directory
\* that have no segment starting with a dot and that can be read and
\* inspected, each with its current content; a file that cannot be read
\* or inspected is left out and the others stay; a missing directory
\* gives the empty mapping.
C22_ListIsExactAndRobust ==
  [][Handles("/api/files/list") =>
       LET x == exchanges'[Len(exchanges')]
           expected ==
             {p \in Paths \ {".env", "../evil.txt"} :
                disk.dir /\ disk.files[p].exists /\ x.fault.path # p}
       IN /\ x.status = 200
          /\ DOMAIN x.json.files = expected
          /\ \A p \in expected :
               x.json.files[p].content = disk.files[p].content]_vars

\* C23: a step that handles POST /api/files/create answers 400 and leaves
\* the disk as it was when fileName is missing or empty or content is
\* missing; otherwise, when the write does not fail, it answers 200 with
\* success true and the fileName of the request, the output directory and
\* the parent directory of the file exist, the file holds exactly the
\* content of the request, and every other file is as it was.
C23_CreateWritesExactlyOneFile ==
  [][Handles("/api/files/create") =>
       LET x == exchanges'[Len(exchanges')]
           body == x.body
       IN IF body.fileName \in {Undefined, Str("")}
             \/ body.content = Undefined
            THEN x.status = 400 /\ disk' = disk
          ELSE x.failAt = 0 =>
            LET filePath == path_join(body.fileName.v)
            IN /\ x.status = 200
               /\ x.json.success
               /\ x.json.fileName = body.fileName.v
               /\ disk'.dir
               /\ dirname(filePath) \in disk'.dirs \cup {".", ".."}
               /\ disk.dirs \subseteq disk'.dirs
               /\ disk'.files[filePath] =
                    [exists |-> TRUE,
                     content |-> IF body.content = Str("") THEN <<>>
                                 ELSE <<body.content.v>>]
               /\ \A p \in Paths \ {filePath} :
                    disk'.files[p] = disk.files[p]]_vars

\* notes/a.txt was created with content "x" in a directory that held an
\* older script.js: the directory notes exists and script.js is untouched
C23_Witness ==
  /\ exchanges # <<>>
  /\ exchanges[Len(exchanges)].route = "/api/files/create"
  /\ exchanges[Len(exchanges)].body =
       [fileName |-> Str("notes/a.txt"), content |-> Str("x")]
  /\ exchanges[Len(exchanges)].status = 200
  /\ "notes" \in disk.dirs
  /\ disk.files["notes/a.txt"] = [exists |-> TRUE, content |-> <<"x">>]
  /\ disk.files["script.js"] = [exists |-> TRUE, content |-> <<"old script">>]

(* ------------------------- chat request, end to end -------------------- *)
\* the number of matches of /```[\w+]?\n([\s\S]*?)```/g in a response text
\* of the server: the texts the handler of /api/ask assigns to `response`
\* (lines 54, 236, 239, 534, 538, 542) hold no fence
codeBlocks(aiResponse) ==
  CASE aiResponse = ResponseText("calculator", TRUE) -> 0
    [] aiResponse = ResponseText("calculator", FALSE) -> 0
    [] aiResponse = ResponseText("todo", TRUE) -> 0
    [] aiResponse = ResponseText("todo", FALSE) -> 0
    [] OTHER -> 0

\* C24: the request the chat sends for "build me a todo app", a prompt and
\* no requestType, is answered with a files mapping of 3 entries and
\* without a showBuildButton, and the response text gives the chat 3 code
\* blocks to put into metadata.filesGenerated of the message it appends.
C24_ChatTodoEndToEnd ==
  \A i \in Asked :
    LET x == exchanges[i]
    IN x.body = [prompt |-> Str("build me a todo app"),
                 requestType |-> Undefined] =>
         /\ x.status = 200
         /\ Len(x.json.files.entries) = 3
         /\ "showBuildButton" \notin DOMAIN x.json
         /\ codeBlocks(x.json.response) = 3

(* --------------------------- generated file names ---------------------- *)
\* the blocks of the response that were given a file name
Named == {k \in DOMAIN named : named[k].fileName # Undefined}

\* the base name and extension the claim lists for a language tag
BaseOfLanguage(language) ==
  CASE language \in {"html", "HTML"} -> <<"index", "html">>
    [] language = "css" -> <<"styles", "css">>
    [] language = "js" -> <<"script", "js">>
    [] language = "ts" -> <<"app", "ts">>
    [] language = "py" -> <<"main", "py">>
    [] language = "json" -> <<"package", "json">>
    [] OTHER -> <<"file", "txt">>

\* C25: the name of a block whose language decides its base name is that
\* base name with the extension of the language, without suffix when no
\* earlier block of the response has that base name, and with suffix
\* c + 1 when c earlier blocks have it.
C25_SuffixCountsSameBaseName ==
  \A k \in Named :
    LET f == named[k].fileName
        c == Cardinality({j \in Named :
                            j < k /\ named[j].fileName.base = f.base})
    IN (named[k].language # "text" \/ named[k].code.includes = {}) =>
         /\ <<f.base, f.ext>> = BaseOfLanguage(named[k].language)
         /\ f.suffix = IF c = 0 THEN Num(0) ELSE Num(c + 1)

\* C26: the file names given to the code blocks of one response are
\* pairwise distinct.
C26_NamesPairwiseDistinct ==
  \A j \in Named : \A k \in Named :
    j # k => named[j].fileName # named[k].fileName

\* three html blocks of one response were named index.html, index2.html
\* and index3.html
C26_Witness ==
  /\ Len(named) = 3
  /\ \A k \in 1..3 : named[k].language = "html" /\ ~named[k].code.empty
  /\ named[1].fileName = [base |-> "index", suffix |-> Num(0), ext |-> "html"]
  /\ named[2].fileName = [base |-> "index", suffix |-> Num(2), ext |-> "html"]
  /\ named[3].fileName = [base |-> "index", suffix |-> Num(3), ext |-> "html"]

(* ------------------------- the log of chat messages -------------------- *)
\* the places in the log of the AI messages attempt a appended
AiPlaces(a) == (attempts[a].aiAt + 1)..(attempts[a].aiAt + attempts[a].aiMsgs)

\* C27: the messages of the log have pairwise distinct identifiers, also
\* when two of them were appended at the same reading of the clock.
C27_DistinctMessageIds ==
  \A i \in DOMAIN messages : \A j \in DOMAIN messages :
    i # j => messages[i].id # messages[j].id

\* C28: the user messages are in the log in the order of their submits,
\* and every AI message of an attempt comes after the user message of
\* that attempt and before the user message of every later attempt.
C28_SubmissionOrder ==
  \A a \in DOMAIN attempts : \A b \in DOMAIN attempts :
    /\ a < b => attempts[a].userAt < attempts[b].userAt
    /\ \A place \in AiPlaces(a) :
         /\ attempts[a].userAt < place
         /\ a < b => place < attempts[b].userAt

(* ------------------------------ the idle state ------------------------- *)
\* C30: when no attempt is in flight, before the first submit and after
\* every attempt has reached its end, isLoading is false, currentStage is
\* empty and liveCoding.isActive is false.
C30_IdleWhenNothingInFlight ==
  InFlight = {} =>
    /\ ~isLoading
    /\ currentStage = ""
    /\ ~liveCoding.isActive

\* two attempts have ended, one of them cancelled and one of them
\* complete, and the UI is idle
C30_Witness ==
  /\ Len(attempts) = 2
  /\ InFlight = {}
  /\ \E a \in DOMAIN attempts : Cancelled(a)
  /\ \E a \in DOMAIN attempts : attempts[a].outcome = "complete"
  /\ \E a \in DOMAIN attempts : attempts[a].outcome = "failed"
  /\ ~isLoading /\ currentStage = "" /\ ~liveCoding.isActive

(* ----------------------- progress of a typing run ---------------------- *)
\* C32: while a file of n lines is typed, the progress shown together with
\* the content holding its first k lines is round(100 k / n), the lines
\* emitted over the lines of the file.
C32_ProgressIsLinesEmittedOverTotal ==
  \A t \in DOMAIN typings :
    typings[t].pc = "await" =>
      liveCoding.progress \in
        MathRound(liveCoding.content.lines, typings[t].n)

(* ------------------------ typing and cancellation ---------------------- *)
\* C31: a typing run that has begun runs to the end of its file, also
\* when Cancel is pressed while it runs: a state is reached in which the
\* run has ended and liveCoding shows the whole code with progress 100.
C31_TypingRunsToTheEnd ==
  (\E t \in DOMAIN typings : typings[t].pc = "await") ~>
    (/\ typings # <<>>
     /\ typings[1].pc = "done"
     /\ liveCoding.content = Text(typings[1].n, FALSE)
     /\ liveCoding.progress = 100)

\* the token of every attempt is cancelled while the typing run that a
\* file loop began still has lines to emit
C31_Witness ==
  /\ typings # <<>>
  /\ typings[1].pc = "await"
  /\ typings[1].i + 1 < typings[1].n
  /\ attempts # <<>>
  /\ \A a \in DOMAIN attempts : tokens[attempts[a].tok]

(* ------------------------- answers and termination --------------------- *)
\* C34: every accepted submit is answered in the end unless it is
\* cancelled: its attempt ends with exactly one AI message appended to
\* the log, on the staged route, on the plain route to /api/ask and on the
\* route to /api/agent/generate.
C34_EverySubmitAnswered ==
  \A a \in 1..MaxAttempts :
    (a \in DOMAIN attempts) ~>
      (/\ a \in DOMAIN attempts
       /\ \/ Cancelled(a)
          \/ attempts[a].pc = "done" /\ attempts[a].aiMsgs = 1)

(* --------------------------- routing of submits ------------------------ *)
\* C35: a submit whose text contains a code-generation keyword starts a
\* staged generation, handleFileGeneration entering the stage analysis,
\* whatever was submitted, completed, failed or cancelled before it.
C35_KeywordSubmitsAreStaged ==
  [][Len(attempts') = Len(attempts) + 1 =>
       LET att == attempts'[Len(attempts')]
       IN SubstringsOf(att.prompt) \cap codeKeywords # {} =>
            /\ att.pc = "delay"
            /\ att.stages = <<"analysis">>
            /\ currentStage' = "analysis"]_vars

\* a second keyword submit is in its stages after the generation of a
\* first keyword submit has reached Complete
C35_Witness ==
  /\ Len(attempts) = 2
  /\ attempts[1].outcome = "complete"
  /\ attempts[1].pc = "done"
  /\ "complete" \in {attempts[1].stages[k] : k \in DOMAIN attempts[1].stages}
  /\ attempts[2].prompt = "build a todo app"
  /\ attempts[2].pc = "delay"
  /\ isGenerationMode

(* ------------------------- the token held in state --------------------- *)
\* C36: while the latest attempt is in flight and not cancelled, the
\* cancelToken of the component state is the token of that attempt and
\* isLoading is true; the end of an earlier attempt does not clear them.
C36_TokenBelongsToInFlightAttempt ==
  \A b \in InFlight :
    (b = Len(attempts) /\ ~Cancelled(b)) =>
      /\ cancelToken = attempts[b].tok
      /\ isLoading

\* C37: when the pacing timers fire and the network calls return or fail,
\* every attempt ends, completed, failed or cancelled: its call of
\* handleAIResponse has run its finally block and isLoading is false.
C37_EveryAttemptEnds ==
  \A a \in 1..MaxAttempts :
    (a \in DOMAIN attempts) ~>
      (/\ a \in DOMAIN attempts
       /\ attempts[a].pc = "done"
       /\ ~isLoading)

\* an attempt that was cancelled has ended at a cancel check and an
\* attempt whose network call failed has ended too
C37_Witness ==
  /\ InFlight = {}
  /\ \E a \in DOMAIN attempts :
       Cancelled(a) /\ attempts[a].outcome = "cancelled"
  /\ \E a \in DOMAIN attempts :
       attempts[a].netFailed /\ attempts[a].outcome = "failed"
  /\ ~isLoading

(* --------------------------- submits without effect -------------------- *)
\* the number of user messages in a log
UserMessages(log) ==
  Cardinality({k \in DOMAIN log : log[k].sender = "user"})

\* C38: a submit made while isLoading is true has no effect, and neither
\* has a submit with empty text: in a step taken while isLoading is true
\* no user message is appended, no attempt is started and no token is
\* created, and no attempt ever has an empty prompt.
C38_SubmitWhileLoadingHasNoEffect ==
  [][/\ isLoading =>
          /\ UserMessages(messages') = UserMessages(messages)
          /\ Len(attempts') = Len(attempts)
          /\ Len(tokens') = Len(tokens)
     /\ \A a \in DOMAIN attempts' : attempts'[a].prompt # ""]_vars

(* ------------------- the bundle reported and the disk ------------------ *)
\* C39: when a step answers POST /api/ask with a non-empty files mapping,
\* every file of the mapping is in the output directory with the content
\* reported, unless a request to /api/files/create or a failed write has
\* written to that file before.
C39_ReportedBundleIsMaterialized ==
  [][Handles("/api/ask") =>
       LET x == exchanges'[Len(exchanges')]
       IN x.status = 200 =>
            \A k \in DOMAIN x.json.files.entries :
              LET file == x.json.files.entries[k]
              IN (\A m \in DOMAIN exchanges :
                    /\ exchanges[m].failAt = 0
                    /\ exchanges[m].route = "/api/files/create" =>
                         ~Touched(exchanges[m], file.name)) =>
                   disk'.files[file.name] =
                     [exists |-> TRUE, content |-> file.content]]_vars

(* ------------------------ staying in the directory --------------------- *)
\* C40: a step that handles POST /api/files/create creates or changes
\* only files inside the output directory: the path of a file it writes,
\* taken from the output directory, does not begin with the segment '..'.
C40_CreateStaysInsideOutputDirectory ==
  [][Handles("/api/files/create") =>
       \A p \in Paths :
         disk'.files[p] # disk.files[p] => Segments(p)[1] # ".."]_vars

====
